---- MODULE Spec2Model ----
(***************************************************************************)
(* Model of the poasta sequence-to-graph aligner driver                    *)
(* (src/src/aligner/mod.rs), of the node-to-bubble map builder             *)
(* (src/src/bubbles/node_map.rs) and of the wavefront container            *)
(* (src/src/wavefront/mod.rs).                                             *)
(*                                                                         *)
(* The state tree, the bucket queue, the path extender and the scoring     *)
(* strategy are collaborators of the driver whose code is not part of the  *)
(* sources at hand; they are modelled from the design document (sections   *)
(* 4.1 - 4.4) and from the way the driver calls them.                      *)
(***************************************************************************)
EXTENDS Integers, Sequences, FiniteSets, TLC

(***************************************************************************)
(* Bounds of the model.                                                    *)
(***************************************************************************)
\* longest query sequence tried
MaxQueryLen == 3
\* number of nodes of the graphs a bubble map is built for
BubbleNodes == 5
\* O::max_value() of the narrow offset type of the model (a scaled-down u8)
SmallOffsetMax == 2
\* width of the machine integer usize in the model (scaled down from 64)
UsizeBits == 16
\* largest |k| of the diagonals a wavefront is constructed over
WfMaxDiag == 1
\* largest offset supplied to a wavefront
WfMaxOffset == 2
\* number of update_fr_point calls followed on one wavefront
WfMaxCalls == 3

(***************************************************************************)
(* Generic helpers.                                                        *)
(***************************************************************************)
Range(s) == {s[i] : i \in DOMAIN s}

Min2(a, b) == IF a <= b THEN a ELSE b

SetMin(S) == CHOOSE m \in S : \A y \in S : m <= y

RECURSIVE Flatten(_)
Flatten(ss) == IF ss = <<>> THEN <<>> ELSE Head(ss) \o Flatten(Tail(ss))

RECURSIVE Pow2(_)
Pow2(n) == IF n = 0 THEN 1 ELSE 2 * Pow2(n - 1)

RECURSIVE SeqsUpTo(_, _)
SeqsUpTo(S, n) ==
    IF n = 0 THEN {<<>>}
    ELSE LET shorter == SeqsUpTo(S, n - 1)
         IN shorter \cup {Append(q, c) : q \in {r \in shorter : Len(r) = n - 1}, c \in S}

(***************************************************************************)
(* Inputs of align: graphs, query sequences, costs, offset types.          *)
(*                                                                         *)
(* A graph is a record: succ[n] is the ordered list of successors of node  *)
(* n, sym[n] its symbol, starts the list start_nodes() returns, ends the   *)
(* set on which is_end() holds.  Node 1 is the virtual start node, which   *)
(* carries no symbol ("-").  Nodes are numbered in a topological order.    *)
(***************************************************************************)
Alphabet == {"A", "B"}

\* start -> A -> B
GraphLinear ==
    [succ |-> << <<2>>, <<3>>, <<>> >>, sym |-> <<"-", "A", "B">>,
     starts |-> <<1>>, ends |-> {3}]

\* start -> A (end);  start -> B -> A (end): a fork at the start node
GraphFork ==
    [succ |-> << <<2, 3>>, <<>>, <<4>>, <<>> >>, sym |-> <<"-", "A", "B", "A">>,
     starts |-> <<1>>, ends |-> {2, 4}]

\* start -> A -> {A, B} -> B: a bubble
GraphBubble ==
    [succ |-> << <<2>>, <<3, 4>>, <<5>>, <<5>>, <<>> >>,
     sym |-> <<"-", "A", "A", "B", "B">>,
     starts |-> <<1>>, ends |-> {5}]

\* start -> A -> B -> A with a skip edge A -> A
GraphSkip ==
    [succ |-> << <<2>>, <<3, 4>>, <<4>>, <<>> >>, sym |-> <<"-", "A", "B", "A">>,
     starts |-> <<1>>, ends |-> {4}]

\* start -> B -> B, the start node being an end node as well
GraphStartIsEnd ==
    [succ |-> << <<2>>, <<3>>, <<>> >>, sym |-> <<"-", "B", "B">>,
     starts |-> <<1>>, ends |-> {1, 3}]

\* start -> A, the only end node (B) is not reachable from the start
GraphUnreachableEnd ==
    [succ |-> << <<2>>, <<>>, <<>> >>, sym |-> <<"-", "A", "B">>,
     starts |-> <<1>>, ends |-> {3}]

\* start -> A;  start -> B (end): A has no successor and is no end node
GraphDeadEnd ==
    [succ |-> << <<2, 3>>, <<>>, <<>> >>, sym |-> <<"-", "A", "B">>,
     starts |-> <<1>>, ends |-> {3}]

\* a graph that reports no start node
GraphNoStart ==
    [succ |-> << <<2>>, <<>> >>, sym |-> <<"-", "A">>,
     starts |-> <<>>, ends |-> {2}]

Graphs == {GraphLinear, GraphFork, GraphBubble, GraphSkip, GraphStartIsEnd,
           GraphUnreachableEnd, GraphDeadEnd, GraphNoStart}

Queries == SeqsUpTo(Alphabet, MaxQueryLen)

\* gap-affine: mismatch x, gap open o, gap extend e
\* two-piece affine: additionally long-gap open o2 and extend e2
CostSchemes ==
    { [kind |-> "affine",   x |-> 1, o |-> 1, e |-> 1, o2 |-> 0, e2 |-> 0],
      [kind |-> "twopiece", x |-> 2, o |-> 0, e |-> 3, o2 |-> 3, e2 |-> 1] }

\* the largest usize
UsizeMax == Pow2(UsizeBits) - 1

\* O::max_value().as_usize() of the offset types tried: a small type, u8 and usize
OffsetMaxima == {SmallOffsetMax, 255, UsizeMax}

(***************************************************************************)
(* The graph interface (AlignableGraph).                                   *)
(***************************************************************************)
Nodes(g) == DOMAIN g.succ

Successors(g, n) == g.succ[n]

Predecessors(g, n) == {p \in Nodes(g) : n \in Range(g.succ[p])}

IsEnd(g, n) == n \in g.ends

Symbol(g, n) == g.sym[n]

(***************************************************************************)
(* Alignment phases and state tree nodes.                                  *)
(***************************************************************************)
MatchPhases == {"Start", "Match", "Mismatch"}

InsPhases == {"Insertion", "Insertion2"}

DelPhases == {"Deletion", "Deletion2"}

NoBacktrace == [kind |-> "None", prev |-> 0]

Step(ix) == [kind |-> "Step", prev |-> ix]

ClosedIndel(ix) == [kind |-> "ClosedIndel", prev |-> ix]

StateTreeNode(n, off, phase, bt) ==
    [node |-> n, offset |-> off, state |-> phase, bt |-> bt]

NewStart(n) == StateTreeNode(n, 0, "Start", NoBacktrace)

(***************************************************************************)
(* The state tree: an arena (a sequence) addressed by index, with at most  *)
(* one node per (node, offset, phase).                                     *)
(***************************************************************************)
Visited(t, n, off, phase) ==
    \E i \in DOMAIN t : t[i].node = n /\ t[i].offset = off /\ t[i].state = phase

IndexOf(t, n, off, phase) ==
    CHOOSE i \in DOMAIN t : t[i].node = n /\ t[i].offset = off /\ t[i].state = phase

\* a variant that inserts without looking the state up
AddNodeAlways(t, st) ==
    [tree |-> Append(t, st), ix |-> Len(t) + 1, new |-> TRUE]

\* add_node: the tree after the insert and the index of the state
AddNode(t, st) ==
    IF Visited(t, st.node, st.offset, st.state)
    THEN [tree |-> t, ix |-> IndexOf(t, st.node, st.offset, st.state), new |-> FALSE]
    ELSE [tree |-> Append(t, st), ix |-> Len(t) + 1, new |-> TRUE]

(***************************************************************************)
(* The bucket queue: a deque of buckets, the front bucket first.           *)
(***************************************************************************)
Enqueue(q, extra, ix) ==
    LET grown == IF Len(q) <= extra
                 THEN q \o [i \in 1..(extra + 1 - Len(q)) |-> <<>>]
                 ELSE q
    IN [grown EXCEPT ![extra + 1] = Append(@, ix)]

(***************************************************************************)
(* close_indels_for: for every indel state of the batch, in batch order,   *)
(* materialise the Match state at the same (node, offset), linked by       *)
(* ClosedIndel, unless that Match state is present already; the indices    *)
(* of the states created are returned.                                     *)
(***************************************************************************)
RECURSIVE CloseIndelsFrom(_, _, _, _)
CloseIndelsFrom(t, batch, i, out) ==
    IF i > Len(batch) THEN [tree |-> t, new |-> out]
    ELSE LET ix == batch[i]
             nd == t[ix]
         IN IF /\ nd.state \in InsPhases \cup DelPhases
               /\ ~Visited(t, nd.node, nd.offset, "Match")
            THEN CloseIndelsFrom(
                     Append(t, StateTreeNode(nd.node, nd.offset, "Match", ClosedIndel(ix))),
                     batch, i + 1, Append(out, Len(t) + 1))
            ELSE CloseIndelsFrom(t, batch, i + 1, out)

\* a variant that makes the Match state whether or not it is present
RECURSIVE CloseIndelsFromAlways(_, _, _, _)
CloseIndelsFromAlways(t, batch, i, out) ==
    IF i > Len(batch) THEN [tree |-> t, new |-> out]
    ELSE IF t[batch[i]].state \in InsPhases \cup DelPhases
    THEN CloseIndelsFromAlways(
             Append(t, StateTreeNode(t[batch[i]].node, t[batch[i]].offset, "Match",
                                     ClosedIndel(batch[i]))),
             batch, i + 1, Append(out, Len(t) + 1))
    ELSE CloseIndelsFromAlways(t, batch, i + 1, out)

CloseIndelsAlways(t, batch) == CloseIndelsFromAlways(t, batch, 1, <<>>)

CloseIndelsFor(t, batch) == CloseIndelsFrom(t, batch, 1, <<>>)

(***************************************************************************)
(* The scoring strategy: the successors of a state and what each costs.    *)
(* generate_next is handed the length of the query only, never the query,  *)
(* so a mismatch successor is generated for every graph successor.         *)
(***************************************************************************)
TwoPiece(c) == c.kind = "twopiece"

\* a variant whose deletions stay on the graph node of the parent
EdgeSuccessorsStayingDeletion(c, nd, ix, s, seqLen) ==
       (IF nd.offset < seqLen
        THEN << [st |-> StateTreeNode(s, nd.offset + 1, "Mismatch", Step(ix)), delta |-> c.x] >>
        ELSE <<>>)
    \o << [st |-> StateTreeNode(nd.node, nd.offset, "Deletion", Step(ix)), delta |-> c.o + c.e] >>

\* the successors opened from a Start, Match or Mismatch state over the edge to s
EdgeSuccessors(c, nd, ix, s, seqLen) ==
       (IF nd.offset < seqLen
        THEN << [st |-> StateTreeNode(s, nd.offset + 1, "Mismatch", Step(ix)), delta |-> c.x] >>
        ELSE <<>>)
    \o << [st |-> StateTreeNode(s, nd.offset, "Deletion", Step(ix)), delta |-> c.o + c.e] >>
    \o (IF TwoPiece(c)
        THEN << [st |-> StateTreeNode(s, nd.offset, "Deletion2", Step(ix)), delta |-> c.o2 + c.e2] >>
        ELSE <<>>)

\* the insertions opened from a Start, Match or Mismatch state
OpenInsertions(c, nd, ix, seqLen) ==
    IF nd.offset < seqLen
    THEN << [st |-> StateTreeNode(nd.node, nd.offset + 1, "Insertion", Step(ix)), delta |-> c.o + c.e] >>
         \o (IF TwoPiece(c)
             THEN << [st |-> StateTreeNode(nd.node, nd.offset + 1, "Insertion2", Step(ix)), delta |-> c.o2 + c.e2] >>
             ELSE <<>>)
    ELSE <<>>

ExtendCost(c, phase) == IF phase \in {"Insertion", "Deletion"} THEN c.e ELSE c.e2

\* the successors of tree node ix, in the order they are generated
NextStates(t, g, seqLen, ix, c) ==
    LET nd == t[ix]
        succs == Successors(g, nd.node)
    IN IF nd.state \in MatchPhases
       THEN Flatten([i \in DOMAIN succs |-> EdgeSuccessors(c, nd, ix, succs[i], seqLen)])
            \o OpenInsertions(c, nd, ix, seqLen)
       ELSE IF nd.state \in InsPhases
       THEN (IF nd.offset < seqLen
             THEN << [st |-> StateTreeNode(nd.node, nd.offset + 1, nd.state, Step(ix)),
                      delta |-> ExtendCost(c, nd.state)] >>
             ELSE <<>>)
       ELSE [i \in DOMAIN succs |->
                [st |-> StateTreeNode(succs[i], nd.offset, nd.state, Step(ix)),
                 delta |-> ExtendCost(c, nd.state)]]

\* the bucket, counted from the front of the queue, of a successor that costs
\* delta more than the bucket popped last
BucketFor(delta) == delta - 1

\* insert the successors that are not in the tree yet and enqueue each
RECURSIVE EmitAll(_, _, _, _)
EmitAll(t, q, cands, i) ==
    IF i > Len(cands) THEN [tree |-> t, queue |-> q]
    ELSE LET cand == cands[i]
             added == AddNode(t, cand.st)
         IN IF added.new
            THEN EmitAll(added.tree, Enqueue(q, BucketFor(cand.delta), added.ix), cands, i + 1)
            ELSE EmitAll(t, q, cands, i + 1)

GenerateNext(t, q, g, seqLen, ix, c) == EmitAll(t, q, NextStates(t, g, seqLen, ix, c), 1)

(***************************************************************************)
(* The path extender: from tree node ix, create a Match state for every    *)
(* successor whose symbol equals the next query character and that is not  *)
(* in the tree as a Match state yet, and go on from it; the indices of the *)
(* states created are yielded in depth-first order.                        *)
(***************************************************************************)
RECURSIVE ExtendSuccs(_, _, _, _, _, _)
ExtendSuccs(t, g, seq, ix, i, out) ==
    LET nd == t[ix]
        succs == Successors(g, nd.node)
    IN IF i > Len(succs) THEN [tree |-> t, out |-> out]
       ELSE LET s == succs[i]
            IN IF /\ nd.offset < Len(seq)
                  /\ Symbol(g, s) = seq[nd.offset + 1]
                  /\ ~Visited(t, s, nd.offset + 1, "Match")
               THEN LET t2 == Append(t, StateTreeNode(s, nd.offset + 1, "Match", Step(ix)))
                        child == ExtendSuccs(t2, g, seq, Len(t2), 1, Append(out, Len(t2)))
                    IN ExtendSuccs(child.tree, g, seq, ix, i + 1, child.out)
               ELSE ExtendSuccs(t, g, seq, ix, i + 1, out)

PathExtender(t, g, seq, ix) == ExtendSuccs(t, g, seq, ix, 1, <<>>)

(***************************************************************************)
(* PoastaAligner::extend.                                                  *)
(***************************************************************************)
\* the test of an end state
IsEndState(t, g, seq, ix) ==
    /\ t[ix].state \in MatchPhases
    /\ t[ix].offset = Len(seq)
    /\ IsEnd(g, t[ix].node)

\* iter().find(..): the first member that is an end state, 0 when there is none
FindEnd(t, g, seq, ixs) ==
    LET hits == {i \in DOMAIN ixs : IsEndState(t, g, seq, ixs[i])}
    IN IF hits = {} THEN 0 ELSE ixs[SetMin(hits)]

\* what the first state the extender yields does to the bucket slot it started from
ReplaceSlot(slots, i, newIx) == [slots EXCEPT ![i] = newIx]

\* a variant that pushes the first state the extender yields as well as writing it
\* over the slot
RECURSIVE ExtendSlotsFirstTwice(_, _, _, _, _, _)
ExtendSlotsFirstTwice(t, g, seq, slots, i, additional) ==
    IF i > Len(slots) THEN [tree |-> t, queue |-> slots, additional |-> additional]
    ELSE IF t[slots[i]].state \in MatchPhases /\ PathExtender(t, g, seq, slots[i]).out # <<>>
    THEN ExtendSlotsFirstTwice(PathExtender(t, g, seq, slots[i]).tree, g, seq,
                               [slots EXCEPT ![i] = Head(PathExtender(t, g, seq, slots[i]).out)],
                               i + 1, additional \o PathExtender(t, g, seq, slots[i]).out)
    ELSE ExtendSlotsFirstTwice(t, g, seq, slots, i + 1, additional)

\* the loop over the slots of the bucket
RECURSIVE ExtendSlots(_, _, _, _, _, _)
ExtendSlots(t, g, seq, slots, i, additional) ==
    IF i > Len(slots) THEN [tree |-> t, queue |-> slots, additional |-> additional]
    ELSE IF t[slots[i]].state \in MatchPhases
    THEN LET ext == PathExtender(t, g, seq, slots[i])
         IN IF ext.out = <<>>
            THEN ExtendSlots(t, g, seq, slots, i + 1, additional)
            ELSE ExtendSlots(ext.tree, g, seq, ReplaceSlot(slots, i, Head(ext.out)),
                             i + 1, additional \o Tail(ext.out))
    ELSE ExtendSlots(t, g, seq, slots, i + 1, additional)

\* a variant without the test before extending
EndBeforeExtendSkipped(t, g, seq, bucket) == 0

\* the test before extending
EndBeforeExtend(t, g, seq, bucket) == FindEnd(t, g, seq, bucket)

\* a variant that leaves the extender's additional states out of the test
EndAfterExtendBucketOnly(t, g, seq, bucket, additional) == FindEnd(t, g, seq, bucket)

\* the test after extending
EndAfterExtend(t, g, seq, bucket, additional) == FindEnd(t, g, seq, bucket \o additional)

Extend(t, g, seq, bucket) ==
    LET pre == EndBeforeExtend(t, g, seq, bucket)
        ext == ExtendSlots(t, g, seq, bucket, 1, <<>>)
        post == EndAfterExtend(ext.tree, g, seq, ext.queue, ext.additional)
    IN IF pre # 0
       THEN [exit |-> "pre", end |-> pre, tree |-> t, queue |-> bucket, additional |-> <<>>]
       ELSE IF post # 0
       THEN [exit |-> "post", end |-> post, tree |-> ext.tree, queue |-> ext.queue,
             additional |-> ext.additional]
       ELSE [exit |-> "new", end |-> 0, tree |-> ext.tree, queue |-> ext.queue,
             additional |-> ext.additional]

(***************************************************************************)
(* PoastaAligner::backtrace.  An aligned pair has rpos = 0 for None and    *)
(* qpos = -1 for None; query positions count from 0.                       *)
(***************************************************************************)
AlignedPair(r, q) == [rpos |-> r, qpos |-> q]

Reverse(s) == [i \in 1..Len(s) |-> s[Len(s) + 1 - i]]

\* a variant that pushes a pair for the Match state of a closed indel as well
PairsOfClosedToo(nd) ==
    IF nd.state \in {"Match", "Mismatch"} THEN << [rpos |-> nd.node, qpos |-> nd.offset - 1] >>
    ELSE IF nd.state = "Insertion" THEN << [rpos |-> 0, qpos |-> nd.offset - 1] >>
    ELSE << [rpos |-> nd.node, qpos |-> -1] >>

\* the pairs a state contributes
PairsOf(nd) ==
    IF nd.state \in {"Match", "Mismatch"}
    THEN (IF nd.bt.kind = "Step" THEN << AlignedPair(nd.node, nd.offset - 1) >> ELSE <<>>)
    ELSE IF nd.state = "Insertion" THEN << AlignedPair(0, nd.offset - 1) >>
    ELSE << AlignedPair(nd.node, -1) >>

\* the phases backtrace panics on
UnexpectedInBacktrace == {"Start", "Insertion2", "Deletion2"}

RECURSIVE BacktraceLoop(_, _, _)
BacktraceLoop(t, n, acc) ==
    LET nd == t[n]
    IN IF nd.bt.kind = "None" THEN [ok |-> TRUE, pairs |-> acc]
       ELSE IF nd.state \in UnexpectedInBacktrace THEN [ok |-> FALSE, pairs |-> acc]
       ELSE LET acc2 == acc \o PairsOf(nd)
            IN IF t[nd.bt.prev].state = "Start"
               THEN [ok |-> TRUE, pairs |-> acc2]
               ELSE BacktraceLoop(t, nd.bt.prev, acc2)

Backtrace(t, endState) ==
    LET r == BacktraceLoop(t, endState, <<>>)
    IN [ok |-> r.ok, alignment |-> Reverse(r.pairs)]

(***************************************************************************)
(* PoastaAligner::align as a state machine.                                *)
(***************************************************************************)
VARIABLES
    graph,              \* the graph aligned to
    seq,                \* the query sequence
    costs,              \* the costs the aligner was made with
    max_offset,         \* O::max_value().as_usize()
    pc,                 \* where align is
    queue,              \* the bucket queue
    state_tree,         \* the state tree
    current,            \* the bucket popped in this iteration
    gi,                 \* the position of the generate_next loop in current
    score,              \* the score counter
    reached_end_state,  \* the end state found, 0 before
    extend_exit,        \* the way the last call of extend returned
    alignment,          \* the alignment returned
    popped,             \* the bucket of this iteration as it was popped
    created,            \* the states close_indels_for and extend made in this iteration
    expanded            \* the states generate_next was called for, in order

\* the state of NodeBubbleMapBuilder
VARIABLES
    bgraph,             \* the graph the bubble map is built for
    finder,             \* what the superbubble finder found in it
    bpc,                \* where build is
    bubble_entrance,    \* by reverse postorder: the exit of the bubble entered here, or 0
    bubble_exit,        \* by reverse postorder: the entrance of the bubble left here, or 0
    node_bubble_map,    \* by node: the list of (bubble_exit, dist_to_exit)
    visited,            \* the nodes processed
    rpo_cursor,         \* the reverse postorder number the loop of build is at
    bfs_entrance,       \* the entrance bubble_backward_bfs was called with
    bfs_queue           \* the queue of bubble_backward_bfs

\* the state of a Wavefront and of the calls made on it
VARIABLES
    k_lo,               \* the lowest diagonal stored
    k_hi,               \* the highest diagonal stored
    furthest_points,    \* by index: the offset stored for diagonal k_lo + index, or None
    wpc,                \* "ready", or "panic_unwrap" after a call that failed
    point,              \* the point of the last call of update_fr_point
    supplied,           \* by diagonal: the offsets it got at construction and in calls
    wcalls              \* the number of calls made

alignVars == <<graph, seq, costs, max_offset, pc, queue, state_tree, current, gi, score,
               reached_end_state, extend_exit, alignment, popped, created, expanded>>

bubbleVars == <<bgraph, finder, bpc, bubble_entrance, bubble_exit, node_bubble_map, visited,
                rpo_cursor, bfs_entrance, bfs_queue>>

wavefrontVars == <<k_lo, k_hi, furthest_points, wpc, point, supplied, wcalls>>

vars == <<alignVars, bubbleVars, wavefrontVars>>

inputs == <<graph, seq, costs, max_offset>>

\* no bubble map is being built
BubbleIdle ==
    /\ bgraph = <<>>
    /\ finder = <<>>
    /\ bpc = "idle"
    /\ bubble_entrance = <<>>
    /\ bubble_exit = <<>>
    /\ node_bubble_map = <<>>
    /\ visited = {}
    /\ rpo_cursor = 0
    /\ bfs_entrance = 0
    /\ bfs_queue = <<>>

\* no wavefront is in use
WavefrontIdle ==
    /\ k_lo = 0
    /\ k_hi = 0
    /\ furthest_points = <<>>
    /\ wpc = "idle"
    /\ point = <<>>
    /\ supplied = <<>>
    /\ wcalls = 0

\* what a step of align leaves alone
OutsideAlign == UNCHANGED <<bubbleVars, wavefrontVars>>

AlignInit ==
    /\ graph \in Graphs
    /\ seq \in Queries
    /\ costs \in CostSchemes
    /\ max_offset \in OffsetMaxima
    /\ pc = "entry"
    /\ queue = <<>>
    /\ state_tree = <<>>
    /\ current = <<>>
    /\ gi = 0
    /\ score = 0
    /\ reached_end_state = 0
    /\ extend_exit = "none"
    /\ alignment = <<>>
    /\ popped = <<>>
    /\ created = <<>>
    /\ expanded = <<>>

\* a variant that subtracts saturating at 0
LenMinusOneSaturating(len) ==
    {[trap |-> FALSE, val |-> IF len >= 1 THEN len - 1 ELSE 0]}

\* seq.len() - 1 on usize: what a build can make of it
LenMinusOne(len) ==
    IF len >= 1 THEN {[trap |-> FALSE, val |-> len - 1]}
    ELSE {[trap |-> TRUE, val |-> 0],
          [trap |-> FALSE, val |-> (len - 1) % Pow2(UsizeBits)]}

\* a variant of the assertion that is off by one
OffsetFitsInclusive(lenMinusOne, maxOffset) == lenMinusOne <= maxOffset

\* the assertion on the width of the offset type
OffsetFits(lenMinusOne, maxOffset) == lenMinusOne < maxOffset

AlignEntry ==
    /\ pc = "entry"
    /\ \E r \in LenMinusOne(Len(seq)) :
          pc' = IF r.trap THEN "panic_overflow"
                ELSE IF OffsetFits(r.val, max_offset) THEN "create"
                ELSE "panic_offset"
    /\ UNCHANGED <<inputs, queue, state_tree, current, gi, score, reached_end_state,
                   extend_exit, alignment, popped, created, expanded>>
    /\ OutsideAlign

\* add the start nodes of the graph to the tree and to bucket 0
RECURSIVE SeedStarts(_, _, _, _)
SeedStarts(t, q, starts, i) ==
    IF i > Len(starts) THEN [tree |-> t, queue |-> q]
    ELSE LET added == AddNode(t, NewStart(starts[i]))
         IN SeedStarts(added.tree, Enqueue(q, 0, added.ix), starts, i + 1)

AlignSeed ==
    /\ pc = "create"
    /\ LET seeded == SeedStarts(<<>>, <<>>, graph.starts, 1)
       IN /\ state_tree' = seeded.tree
          /\ queue' = seeded.queue
    /\ score' = 0
    /\ pc' = "loop"
    /\ UNCHANGED <<inputs, current, gi, reached_end_state, extend_exit, alignment,
                   popped, created, expanded>>
    /\ OutsideAlign

\* a variant that returns when the queue has no bucket left
AlignQueueDrainedReturns ==
    /\ pc = "loop"
    /\ queue = <<>>
    /\ pc' = "done"
    /\ UNCHANGED <<inputs, queue, state_tree, current, gi, score, reached_end_state,
                   extend_exit, alignment, popped, created, expanded>>
    /\ OutsideAlign

\* queue.pop_current() returned None
AlignQueueDrained ==
    /\ pc = "loop"
    /\ queue = <<>>
    /\ pc' = "panic_queue"
    /\ UNCHANGED <<inputs, queue, state_tree, current, gi, score, reached_end_state,
                   extend_exit, alignment, popped, created, expanded>>
    /\ OutsideAlign

AlignPop ==
    /\ pc = "loop"
    /\ queue # <<>>
    /\ current' = Head(queue)
    /\ popped' = Head(queue)
    /\ created' = <<>>
    /\ queue' = Tail(queue)
    /\ pc' = "popped"
    /\ UNCHANGED <<inputs, state_tree, gi, score, reached_end_state, extend_exit,
                   alignment, expanded>>
    /\ OutsideAlign

\* a variant that skips an empty bucket without counting it
EmptyBucketScoreKept(s) == s

\* the score counter after an empty bucket was popped
EmptyBucketScore(s) == s + 1

\* the popped bucket is empty
AlignEmptyBucket ==
    /\ pc = "popped"
    /\ current = <<>>
    /\ score' = EmptyBucketScore(score)
    /\ pc' = "loop"
    /\ UNCHANGED <<inputs, queue, state_tree, current, gi, reached_end_state, extend_exit,
                   alignment, popped, created, expanded>>
    /\ OutsideAlign

AlignCloseIndels ==
    /\ pc = "popped"
    /\ current # <<>>
    /\ LET closed == CloseIndelsFor(state_tree, current)
       IN /\ state_tree' = closed.tree
          /\ current' = current \o closed.new
          /\ created' = created \o closed.new
    /\ pc' = "closed"
    /\ UNCHANGED <<inputs, queue, gi, score, reached_end_state, extend_exit, alignment,
                   popped, expanded>>
    /\ OutsideAlign

\* a variant that counts the iteration that found the end state as well
ScoreAtEndBumped(s) == s + 1

\* the score counter after extend has returned ReachedEnd
ScoreAtEnd(s) == s

AlignExtend ==
    /\ pc = "closed"
    /\ LET r == Extend(state_tree, graph, seq, current)
       IN /\ state_tree' = r.tree
          /\ extend_exit' = r.exit
          /\ created' = created \o [i \in 1..(Len(r.tree) - Len(state_tree)) |-> Len(state_tree) + i]
          /\ IF r.exit = "new"
             THEN /\ current' = r.queue \o r.additional
                  /\ gi' = 1
                  /\ pc' = "generate"
                  /\ UNCHANGED <<reached_end_state, score>>
             ELSE /\ current' = r.queue
                  /\ reached_end_state' = r.end
                  /\ score' = ScoreAtEnd(score)
                  /\ pc' = "backtrace"
                  /\ UNCHANGED gi
    /\ UNCHANGED <<inputs, queue, alignment, popped, expanded>>
    /\ OutsideAlign

\* one round of the loop over current: generate_next for current[gi]
AlignGenerate ==
    /\ pc = "generate"
    /\ gi <= Len(current)
    /\ LET r == GenerateNext(state_tree, queue, graph, Len(seq), current[gi], costs)
       IN /\ state_tree' = r.tree
          /\ queue' = r.queue
    /\ expanded' = Append(expanded, current[gi])
    /\ gi' = gi + 1
    /\ UNCHANGED <<inputs, pc, current, score, reached_end_state, extend_exit, alignment,
                   popped, created>>
    /\ OutsideAlign

\* the end of the loop body
AlignNextScore ==
    /\ pc = "generate"
    /\ gi > Len(current)
    /\ score' = score + 1
    /\ pc' = "loop"
    /\ UNCHANGED <<inputs, queue, state_tree, current, gi, reached_end_state, extend_exit,
                   alignment, popped, created, expanded>>
    /\ OutsideAlign

AlignBacktrace ==
    /\ pc = "backtrace"
    /\ LET r == Backtrace(state_tree, reached_end_state)
       IN /\ alignment' = r.alignment
          /\ pc' = IF r.ok THEN "done" ELSE "panic_backtrace"
    /\ UNCHANGED <<inputs, queue, state_tree, current, gi, score, reached_end_state,
                   extend_exit, popped, created, expanded>>
    /\ OutsideAlign

AlignNext ==
    \/ AlignEntry
    \/ AlignSeed
    \/ AlignQueueDrained
    \/ AlignPop
    \/ AlignEmptyBucket
    \/ AlignCloseIndels
    \/ AlignExtend
    \/ AlignGenerate
    \/ AlignNextScore
    \/ AlignBacktrace

Init == AlignInit /\ BubbleIdle /\ WavefrontIdle

Next == AlignNext

Spec == Init /\ [][Next]_vars

\* the positions at which align has stopped: the return and the panics
Stopped ==
    {"done", "panic_overflow", "panic_offset", "panic_queue", "panic_backtrace"}

\* align moves on: every step of Next changes pc or gi, and a step of Next can be
\* taken wherever align has not stopped
Advance ==
    /\ pc \notin Stopped
    /\ pc' \in {"entry", "create", "loop", "popped", "closed", "generate", "backtrace"} \cup Stopped
    /\ gi' \in 0..(Len(current) + 1)
    /\ <<pc', gi'>> # <<pc, gi>>

\* align runs on one thread and nothing holds it up: while it has not stopped, it
\* takes its next step
SpecLive == Spec /\ WF_<<pc, gi>>(Advance)

(***************************************************************************)
(* A reference aligner: the textbook gap-affine dynamic programme on a     *)
(* DAG, with one table per layer (M: the last column is closed, I / D: it  *)
(* is inside an insertion / a deletion, I2 / D2: the long-gap pieces),     *)
(* iterated to its fixed point.  It shares nothing with the driver.        *)
(***************************************************************************)
\* larger than the cost of any alignment of q to a path of g
Unreachable(g, q, c) ==
    (Len(q) + Cardinality(Nodes(g)) + 1) * (c.x + c.o + c.e + c.o2 + c.e2 + 1)

RefCells(g, q) == Nodes(g) \X (0..Len(q))

RefRelax(g, q, c, T) ==
    LET inf == Unreachable(g, q, c)
        cap(S) == SetMin(S \cup {inf})
        ins(open, ext, layer) ==
            [vj \in RefCells(g, q) |->
                IF vj[2] = 0 THEN inf
                ELSE cap({T.M[<<vj[1], vj[2] - 1>>] + open + ext,
                          T[layer][<<vj[1], vj[2] - 1>>] + ext})]
        del(open, ext, layer) ==
            [vj \in RefCells(g, q) |->
                cap({T.M[<<p, vj[2]>>] + open + ext : p \in Predecessors(g, vj[1])}
                    \cup {T[layer][<<p, vj[2]>>] + ext : p \in Predecessors(g, vj[1])})]
        none == [vj \in RefCells(g, q) |-> inf]
    IN [M  |-> [vj \in RefCells(g, q) |->
                  cap((IF vj[1] \in Range(g.starts) /\ vj[2] = 0 THEN {0} ELSE {})
                      \cup (IF vj[2] = 0 THEN {}
                            ELSE {T.M[<<p, vj[2] - 1>>]
                                    + (IF Symbol(g, vj[1]) = q[vj[2]] THEN 0 ELSE c.x)
                                  : p \in Predecessors(g, vj[1])})
                      \cup {T.I[vj], T.D[vj], T.I2[vj], T.D2[vj]})],
        I  |-> ins(c.o, c.e, "I"),
        D  |-> del(c.o, c.e, "D"),
        I2 |-> IF TwoPiece(c) THEN ins(c.o2, c.e2, "I2") ELSE none,
        D2 |-> IF TwoPiece(c) THEN del(c.o2, c.e2, "D2") ELSE none]

RECURSIVE RefFix(_, _, _, _)
RefFix(g, q, c, T) ==
    LET T2 == RefRelax(g, q, c, T)
    IN IF T2 = T THEN T ELSE RefFix(g, q, c, T2)

RefTable(g, q, c) ==
    LET none == [vj \in RefCells(g, q) |-> Unreachable(g, q, c)]
    IN RefFix(g, q, c, [M |-> none, I |-> none, D |-> none, I2 |-> none, D2 |-> none])

\* the least cost of aligning q to a path from a start node to an end node
RefCost(g, q, c) ==
    LET T == RefTable(g, q, c)
    IN SetMin({T.M[<<v, Len(q)>>] : v \in g.ends} \cup {Unreachable(g, q, c)})

\* whether some alignment of q to a start-to-end path exists
RefAlignable(g, q, c) == RefCost(g, q, c) < Unreachable(g, q, c)

(***************************************************************************)
(* Re-scoring an alignment against the graph and the query: a pair with    *)
(* both sides costs 0 when the symbols agree and x when they differ, a     *)
(* maximal run of l insertions or of l deletions costs o + l*e, or under   *)
(* two-piece affine costs the smaller of o + l*e and o2 + l*e2.            *)
(***************************************************************************)
GapCost(c, l) ==
    IF TwoPiece(c) THEN Min2(c.o + l * c.e, c.o2 + l * c.e2) ELSE c.o + l * c.e

PairKind(p) == IF p.rpos = 0 THEN "ins" ELSE IF p.qpos = -1 THEN "del" ELSE "sub"

\* the length of the run of pairs of one kind that starts at position i
RECURSIVE RunLength(_, _, _)
RunLength(al, i, kind) ==
    IF i > Len(al) \/ PairKind(al[i]) # kind THEN 0 ELSE 1 + RunLength(al, i + 1, kind)

RECURSIVE RescoreFrom(_, _, _, _, _)
RescoreFrom(al, g, q, c, i) ==
    IF i > Len(al) THEN 0
    ELSE IF PairKind(al[i]) = "sub"
    THEN (IF Symbol(g, al[i].rpos) = q[al[i].qpos + 1] THEN 0 ELSE c.x)
         + RescoreFrom(al, g, q, c, i + 1)
    ELSE LET l == RunLength(al, i, PairKind(al[i]))
         IN GapCost(c, l) + RescoreFrom(al, g, q, c, i + l)

Rescore(al, g, q, c) == RescoreFrom(al, g, q, c, 1)

(***************************************************************************)
(* The cost the tree records for a state: the sum of the costs of the      *)
(* transitions along its backtrace chain.                                  *)
(***************************************************************************)
TransitionCost(c, nd, parent) ==
    IF nd.bt.kind = "ClosedIndel" \/ nd.state = "Match" THEN 0
    ELSE IF nd.state = "Mismatch" THEN c.x
    ELSE IF nd.state \in {"Insertion", "Deletion"}
    THEN (IF parent.state \in MatchPhases THEN c.o + c.e ELSE c.e)
    ELSE (IF parent.state \in MatchPhases THEN c.o2 + c.e2 ELSE c.e2)

RECURSIVE PathCost(_, _, _)
PathCost(t, ix, c) ==
    IF t[ix].bt.kind = "None" THEN 0
    ELSE TransitionCost(c, t[ix], t[t[ix].bt.prev]) + PathCost(t, t[ix].bt.prev, c)

\* align has returned (score, alignment)
Returned == pc = "done"

\* align has ended in a panic
Panicked == pc \in {"panic_overflow", "panic_offset", "panic_queue", "panic_backtrace"}

(***************************************************************************)
(* C1. Optimality: for every graph and every non-empty query, the score    *)
(* align returns is the least gap-affine cost of aligning the query to a   *)
(* path from a start node to an end node, as the reference aligner         *)
(* computes it.                                                            *)
(***************************************************************************)
C1_Optimality ==
    (Returned /\ seq # <<>>) => score = RefCost(graph, seq, costs)

(***************************************************************************)
(* C2. Round trip: whenever align returns, re-scoring the alignment it     *)
(* returns against the graph and the query gives the score it returns.     *)
(***************************************************************************)
C2_RoundTrip ==
    Returned => Rescore(alignment, graph, seq, costs) = score

(***************************************************************************)
(* C3. Monotone score: a step of align leaves the score counter alone or   *)
(* adds 1 to it; the step in which extend reports an end state, and every  *)
(* step after it up to the return, leave it alone, so the score returned   *)
(* is the counter of the iteration that found the end state.               *)
(***************************************************************************)
C3_MonotoneScore ==
    [][/\ score' = score \/ score' = score + 1
       /\ pc' \in {"backtrace", "done", "panic_backtrace"} => score' = score
       /\ (pc = "popped" /\ pc' = "loop") => score' = score + 1
       /\ (pc = "generate" /\ pc' = "loop") => score' = score + 1]_vars

C3_Witness ==
    Returned /\ score >= 2 /\ extend_exit = "post"

(***************************************************************************)
(* C4. Bucket ordering and timing: every state of a popped bucket has the  *)
(* cost that equals the score counter at the pop, and every state waiting  *)
(* in the queue sits in the bucket that will be popped when the counter    *)
(* equals its cost: a successor created with cost delta d while the        *)
(* counter is s is popped at s + d.  Popping an empty bucket adds 1 to     *)
(* the counter and changes neither the tree nor the queue.                 *)
(***************************************************************************)
C4_BucketTiming ==
    [][/\ pc' = "popped" =>
            \A i \in DOMAIN current' : PathCost(state_tree', current'[i], costs) = score'
       /\ pc' \in {"loop", "popped", "closed", "generate"} =>
            \A b \in DOMAIN queue' : \A i \in DOMAIN queue'[b] :
                PathCost(state_tree', queue'[b][i], costs)
                    = (IF pc' = "loop" THEN score' + b - 1 ELSE score' + b)
       /\ (pc = "popped" /\ current = <<>>) =>
            /\ score' = score + 1
            /\ state_tree' = state_tree
            /\ queue' = queue]_vars

C4_Witness ==
    /\ pc = "popped"
    /\ score >= 3
    /\ \E i \in DOMAIN current :
          /\ state_tree[current[i]].state = "Mismatch"
          /\ PathCost(state_tree, state_tree[current[i]].bt.prev, costs) >= 1

(***************************************************************************)
(* C5. Uniqueness: the state tree never holds two nodes with the same      *)
(* graph node, offset and phase.                                           *)
(***************************************************************************)
C5_Uniqueness ==
    \A i, j \in DOMAIN state_tree :
        ( /\ state_tree[i].node = state_tree[j].node
          /\ state_tree[i].offset = state_tree[j].offset
          /\ state_tree[i].state = state_tree[j].state ) => i = j

\* generate_next is about to be called for a state one of whose successors is
\* in the tree already
C5_Witness ==
    /\ pc = "generate"
    /\ gi <= Len(current)
    /\ Len(state_tree) >= 6
    /\ \E k \in DOMAIN NextStates(state_tree, graph, Len(seq), current[gi], costs) :
          LET st == NextStates(state_tree, graph, Len(seq), current[gi], costs)[k].st
          IN Visited(state_tree, st.node, st.offset, st.state)

(***************************************************************************)
(* C6. Terminal test: the end state align reports is a Start, Match or     *)
(* Mismatch state at offset |Q| on an end node, never an insertion or      *)
(* deletion state; and the test is made before the extension and, on the   *)
(* bucket and the extender's additional states, after it: when align goes  *)
(* on to generate_next, no member of the bucket is such a state.           *)
(***************************************************************************)
C6_TerminalTest ==
    /\ reached_end_state # 0 =>
          /\ reached_end_state \in DOMAIN state_tree
          /\ state_tree[reached_end_state].state \in {"Start", "Match", "Mismatch"}
          /\ state_tree[reached_end_state].offset = Len(seq)
          /\ state_tree[reached_end_state].node \in graph.ends
    /\ (reached_end_state # 0 /\ extend_exit = "pre") =>
          \E i \in DOMAIN current :
              /\ current[i] = reached_end_state
              /\ \A j \in 1..(i - 1) :
                    ~( /\ state_tree[current[j]].state \in {"Start", "Match", "Mismatch"}
                       /\ state_tree[current[j]].offset = Len(seq)
                       /\ state_tree[current[j]].node \in graph.ends )
    /\ pc = "generate" =>
          \A i \in DOMAIN current :
              ~( /\ state_tree[current[i]].state \in {"Start", "Match", "Mismatch"}
                 /\ state_tree[current[i]].offset = Len(seq)
                 /\ state_tree[current[i]].node \in graph.ends )

\* an end state was reported while an indel state at (end node, |Q|) was in the bucket
C6_Witness ==
    /\ reached_end_state # 0
    /\ \E i \in DOMAIN current :
          /\ state_tree[current[i]].state \in InsPhases \cup DelPhases
          /\ state_tree[current[i]].offset = Len(seq)
          /\ state_tree[current[i]].node \in graph.ends

(***************************************************************************)
(* C7. Backtrace never meets a long-gap phase: under both cost schemes,    *)
(* backtrace never ends in the panic on an unexpected align state.         *)
(***************************************************************************)
C7_BacktraceNeverPanics ==
    pc # "panic_backtrace"

(***************************************************************************)
(* C8. Backtrace soundness: the parent of every tree node fits the         *)
(* transition that made the node: a Match or Mismatch node made by a step  *)
(* has a Start, Match or Mismatch parent on a graph predecessor, one       *)
(* offset before; an insertion node has its parent on the same graph node, *)
(* one offset before; a deletion node has its parent on a graph            *)
(* predecessor at the same offset; the parent of a closed indel is an      *)
(* indel state at the same node and offset.                                *)
(***************************************************************************)
C8_BacktraceSound ==
    \A i \in DOMAIN state_tree :
        LET nd == state_tree[i]
            par == state_tree[nd.bt.prev]
        IN /\ nd.state = "Start" <=> nd.bt.kind = "None"
           /\ nd.bt.kind # "None" => nd.bt.prev \in DOMAIN state_tree /\ nd.bt.prev < i
           /\ (nd.state \in {"Match", "Mismatch"} /\ nd.bt.kind = "Step") =>
                 /\ par.state \in {"Start", "Match", "Mismatch"}
                 /\ par.node \in Predecessors(graph, nd.node)
                 /\ par.offset = nd.offset - 1
           /\ nd.state \in {"Insertion", "Insertion2"} =>
                 /\ nd.bt.kind = "Step"
                 /\ par.node = nd.node
                 /\ par.offset = nd.offset - 1
           /\ nd.state \in {"Deletion", "Deletion2"} =>
                 /\ nd.bt.kind = "Step"
                 /\ par.node \in Predecessors(graph, nd.node)
                 /\ par.offset = nd.offset
           /\ nd.bt.kind = "ClosedIndel" =>
                 /\ nd.state = "Match"
                 /\ par.state \in {"Insertion", "Insertion2", "Deletion", "Deletion2"}
                 /\ par.node = nd.node
                 /\ par.offset = nd.offset

\* a tree that holds a node of every kind the claim speaks of
C8_Witness ==
    /\ \E i \in DOMAIN state_tree :
          state_tree[i].state = "Match" /\ state_tree[i].bt.kind = "Step"
    /\ \E i \in DOMAIN state_tree : state_tree[i].state = "Mismatch"
    /\ \E i \in DOMAIN state_tree :
          state_tree[i].state = "Insertion" /\ state_tree[state_tree[i].bt.prev].state = "Insertion"
    /\ \E i \in DOMAIN state_tree :
          state_tree[i].state = "Deletion2" /\ state_tree[state_tree[i].bt.prev].state = "Deletion2"
    /\ \E i \in DOMAIN state_tree : state_tree[i].bt.kind = "ClosedIndel"

(***************************************************************************)
(* C10. The offset-width check comes first: when |Q| - 1 >= O.max(),       *)
(* align ends in the panic of the assertion, with no queue bucket and no   *)
(* tree node made and nothing returned.                                    *)
(***************************************************************************)
C10_OffsetCheckFirst ==
    (pc # "entry" /\ Len(seq) - 1 >= max_offset) =>
        /\ pc = "panic_offset"
        /\ state_tree = <<>>
        /\ queue = <<>>
        /\ current = <<>>
        /\ expanded = <<>>
        /\ reached_end_state = 0
        /\ alignment = <<>>

C10_Witness ==
    pc = "panic_offset" /\ Len(seq) >= 1 /\ Len(seq) - 1 = max_offset

(***************************************************************************)
(* The graphs a bubble map is built for: every DAG on BubbleNodes nodes.   *)
(* A graph is a record: n the number of nodes, edges the set of edges      *)
(* <<u, v>>, pred_desc whether predecessors() yields the predecessors of a *)
(* node by descending or by ascending node number.                         *)
(***************************************************************************)
\* the pairs of reverse postorder numbers an edge can join
EdgeSlots(n) == {e \in (1..n) \X (1..n) : e[1] < e[2]}

\* how the nodes are laid out in reverse postorder: inv[r] is the node whose
\* reverse postorder number is r.  Node numbers run against the order, so a node
\* and its number in the order are told apart; the other layouts are renamings
\* of this one, up to the order of the predecessors, which pred_desc covers
Layout(n) == [r \in 1..n |-> n + 1 - r]

Inverse(f) == [v \in Range(f) |-> CHOOSE r \in DOMAIN f : f[r] = v]

BNodes(g) == 1..g.n

BSuccessors(g, v) == {w \in BNodes(g) : <<v, w>> \in g.edges}

BPredecessorSet(g, v) == {u \in BNodes(g) : <<u, v>> \in g.edges}

\* a set of numbers as the list of its members in ascending order
RECURSIVE Ascending(_)
Ascending(S) == IF S = {} THEN <<>> ELSE <<SetMin(S)>> \o Ascending(S \ {SetMin(S)})

\* predecessors(v): the predecessors in the order the graph yields them
BPredecessors(g, v) ==
    IF g.pred_desc THEN Reverse(Ascending(BPredecessorSet(g, v)))
    ELSE Ascending(BPredecessorSet(g, v))

(***************************************************************************)
(* The superbubble finder.  (s, t) is a superbubble when t is reachable    *)
(* from s, the nodes reachable from s without passing through t are the    *)
(* nodes from which t is reachable without passing through s, and no node  *)
(* of that set other than t makes such a pair with s.                      *)
(***************************************************************************)
RECURSIVE ForwardAvoiding(_, _, _)
ForwardAvoiding(g, S, t) ==
    LET more == S \cup UNION {BSuccessors(g, u) : u \in S \ {t}}
    IN IF more = S THEN S ELSE ForwardAvoiding(g, more, t)

RECURSIVE BackwardAvoiding(_, _, _)
BackwardAvoiding(g, S, s) ==
    LET more == S \cup UNION {BPredecessorSet(g, u) : u \in S \ {s}}
    IN IF more = S THEN S ELSE BackwardAvoiding(g, more, s)

\* the nodes of the bubble from s to t, entrance and exit included
Inside(g, s, t) == ForwardAvoiding(g, {s}, t)

Superbubbloid(g, s, t) ==
    /\ s # t
    /\ t \in Inside(g, s, t)
    /\ Inside(g, s, t) = BackwardAvoiding(g, {t}, s)

Superbubble(g, s, t) ==
    /\ Superbubbloid(g, s, t)
    /\ \A u \in Inside(g, s, t) \ {s, t} : ~Superbubbloid(g, s, u)

\* finder.iter(): the pairs (entrance, exit)
Superbubbles(g) == {b \in BNodes(g) \X BNodes(g) : Superbubble(g, b[1], b[2])}

Finder(g, inv) ==
    [rev_postorder |-> Inverse(inv), inv_rev_postorder |-> inv, bubbles |-> Superbubbles(g)]

(***************************************************************************)
(* NodeBubbleMapBuilder::new: the two arrays, by reverse postorder number. *)
(***************************************************************************)
BubbleEntrances(g, f) ==
    [r \in 1..g.n |->
        IF \E b \in f.bubbles : f.rev_postorder[b[1]] = r
        THEN (CHOOSE b \in f.bubbles : f.rev_postorder[b[1]] = r)[2]
        ELSE 0]

BubbleExits(g, f) ==
    [r \in 1..g.n |->
        IF \E b \in f.bubbles : f.rev_postorder[b[2]] = r
        THEN (CHOOSE b \in f.bubbles : f.rev_postorder[b[2]] = r)[1]
        ELSE 0]

(***************************************************************************)
(* NodeBubbleMapBuilder::bubble_backward_bfs and build.                    *)
(***************************************************************************)
NodeBubbleMap(exit, dist) == [bubble_exit |-> exit, dist_to_exit |-> dist]

\* a variant that records the distance from the node the search started at
DistToExitFromStart(dist_from_start, bubble_dist_from_start) == dist_from_start

\* the distance recorded for a bubble of the stack
DistToExit(dist_from_start, bubble_dist_from_start) ==
    dist_from_start - bubble_dist_from_start

\* the entries the node taken from the queue gets: one for each bubble of its stack
StackEntries(dist_from_start, bubble_stack) ==
    [k \in DOMAIN bubble_stack |->
        NodeBubbleMap(bubble_stack[k].exit, DistToExit(dist_from_start, bubble_stack[k].dist))]

\* the loop over the predecessors of curr; st holds the builder's visited set and
\* map, the queue, and whether no pop of an empty stack has happened
RECURSIVE VisitPredecessors(_, _, _, _, _, _, _, _)
VisitPredecessors(f, entrances, exits, preds, i, dist_from_start, bubble_stack, st) ==
    IF i > Len(preds) \/ ~st.ok THEN st
    ELSE LET pred == preds[i]
             pred_rpo == f.rev_postorder[pred]
             new_dist == dist_from_start + 1
             is_entrance == entrances[pred_rpo] # 0
             popped_stack == IF is_entrance
                             THEN SubSeq(bubble_stack, 1, Len(bubble_stack) - 1)
                             ELSE bubble_stack
             new_stack == IF exits[pred_rpo] # 0
                          THEN Append(popped_stack, [dist |-> new_dist, exit |-> pred])
                          ELSE popped_stack
             top == bubble_stack[Len(bubble_stack)]
         IN IF pred \in st.visited
            THEN VisitPredecessors(f, entrances, exits, preds, i + 1, dist_from_start,
                                   bubble_stack, st)
            ELSE IF is_entrance /\ bubble_stack = <<>>
            THEN [st EXCEPT !.ok = FALSE]
            ELSE VisitPredecessors(f, entrances, exits, preds, i + 1, dist_from_start,
                    bubble_stack,
                    [ok |-> TRUE,
                     visited |-> st.visited \cup {pred},
                     map |-> IF is_entrance
                             THEN [st.map EXCEPT ![pred] =
                                     Append(@, NodeBubbleMap(top.exit, DistToExit(new_dist, top.dist)))]
                             ELSE st.map,
                     queue |-> Append(st.queue,
                                 [node |-> pred, dist |-> new_dist, stack |-> new_stack])])

\* every DAG, with each order of predecessors
BubbleInit ==
    /\ \E E \in SUBSET EdgeSlots(BubbleNodes), desc \in BOOLEAN :
          /\ bgraph = [n |-> BubbleNodes,
                       edges |-> {<<Layout(BubbleNodes)[e[1]], Layout(BubbleNodes)[e[2]]>> : e \in E},
                       pred_desc |-> desc]
          /\ finder = Finder(bgraph, Layout(BubbleNodes))
    /\ bpc = "new"
    /\ bubble_entrance = <<>>
    /\ bubble_exit = <<>>
    /\ node_bubble_map = <<>>
    /\ visited = {}
    /\ rpo_cursor = 0
    /\ bfs_entrance = 0
    /\ bfs_queue = <<>>

\* no alignment is running
AlignIdle ==
    /\ graph = <<>>
    /\ seq = <<>>
    /\ costs = <<>>
    /\ max_offset = 0
    /\ pc = "idle"
    /\ queue = <<>>
    /\ state_tree = <<>>
    /\ current = <<>>
    /\ gi = 0
    /\ score = 0
    /\ reached_end_state = 0
    /\ extend_exit = "none"
    /\ alignment = <<>>
    /\ popped = <<>>
    /\ created = <<>>
    /\ expanded = <<>>

\* what a step of the builder leaves alone
OutsideBuilder == UNCHANGED <<alignVars, wavefrontVars>>

BuilderNew ==
    /\ bpc = "new"
    /\ bubble_entrance' = BubbleEntrances(bgraph, finder)
    /\ bubble_exit' = BubbleExits(bgraph, finder)
    /\ node_bubble_map' = [v \in BNodes(bgraph) |-> <<>>]
    /\ visited' = {}
    /\ rpo_cursor' = bgraph.n
    /\ bpc' = "build"
    /\ UNCHANGED <<bgraph, finder, bfs_entrance, bfs_queue>>
    /\ OutsideBuilder

\* the node at the cursor was processed by an earlier search
BuildSkipVisited ==
    /\ bpc = "build"
    /\ rpo_cursor >= 1
    /\ finder.inv_rev_postorder[rpo_cursor] \in visited
    /\ rpo_cursor' = rpo_cursor - 1
    /\ UNCHANGED <<bgraph, finder, bpc, bubble_entrance, bubble_exit, node_bubble_map,
                   visited, bfs_entrance, bfs_queue>>
    /\ OutsideBuilder

\* the node at the cursor is no bubble exit
BuildSkipNoExit ==
    /\ bpc = "build"
    /\ rpo_cursor >= 1
    /\ finder.inv_rev_postorder[rpo_cursor] \notin visited
    /\ bubble_exit[rpo_cursor] = 0
    /\ rpo_cursor' = rpo_cursor - 1
    /\ UNCHANGED <<bgraph, finder, bpc, bubble_entrance, bubble_exit, node_bubble_map,
                   visited, bfs_entrance, bfs_queue>>
    /\ OutsideBuilder

\* a variant that starts the search with no bubble on the stack
BuildStartBfsEmptyStack ==
    /\ bpc = "build"
    /\ rpo_cursor >= 1
    /\ finder.inv_rev_postorder[rpo_cursor] \notin visited
    /\ bubble_exit[rpo_cursor] # 0
    /\ bfs_entrance' = bubble_exit[rpo_cursor]
    /\ bfs_queue' = << [node |-> finder.inv_rev_postorder[rpo_cursor], dist |-> 0, stack |-> <<>>] >>
    /\ visited' = visited \cup {finder.inv_rev_postorder[rpo_cursor]}
    /\ bpc' = "bfs"
    /\ UNCHANGED <<bgraph, finder, bubble_entrance, bubble_exit, node_bubble_map, rpo_cursor>>
    /\ OutsideBuilder

\* the node at the cursor is a bubble exit: bubble_backward_bfs starts from it
BuildStartBfs ==
    /\ bpc = "build"
    /\ rpo_cursor >= 1
    /\ finder.inv_rev_postorder[rpo_cursor] \notin visited
    /\ bubble_exit[rpo_cursor] # 0
    /\ LET exit == finder.inv_rev_postorder[rpo_cursor]
       IN /\ bfs_entrance' = bubble_exit[rpo_cursor]
          /\ bfs_queue' = << [node |-> exit, dist |-> 0,
                              stack |-> << [dist |-> 0, exit |-> exit] >>] >>
          /\ visited' = visited \cup {exit}
    /\ bpc' = "bfs"
    /\ UNCHANGED <<bgraph, finder, bubble_entrance, bubble_exit, node_bubble_map, rpo_cursor>>
    /\ OutsideBuilder

\* a variant that stops at the entrance even when it is the exit of another bubble
StopsAtEntrance(curr, entrance, exits, rpo) == curr = entrance

\* whether the search stops at curr
StopsAt(curr, entrance, exits, rpo) == curr = entrance /\ exits[rpo] = 0

\* one round of the while loop of bubble_backward_bfs
BfsStep ==
    /\ bpc = "bfs"
    /\ bfs_queue # <<>>
    /\ LET item == Head(bfs_queue)
           rpo == finder.rev_postorder[item.node]
           recorded == [node_bubble_map EXCEPT ![item.node] =
                            @ \o StackEntries(item.dist, item.stack)]
           after == VisitPredecessors(finder, bubble_entrance, bubble_exit,
                        BPredecessors(bgraph, item.node), 1, item.dist, item.stack,
                        [ok |-> TRUE, visited |-> visited, map |-> recorded,
                         queue |-> Tail(bfs_queue)])
       IN IF StopsAt(item.node, bfs_entrance, bubble_exit, rpo)
          THEN /\ node_bubble_map' = recorded
               /\ bfs_queue' = Tail(bfs_queue)
               /\ UNCHANGED <<visited, bpc>>
          ELSE /\ node_bubble_map' = after.map
               /\ bfs_queue' = after.queue
               /\ visited' = after.visited
               /\ bpc' = IF after.ok THEN "bfs" ELSE "panic_unwrap"
    /\ UNCHANGED <<bgraph, finder, bubble_entrance, bubble_exit, rpo_cursor, bfs_entrance>>
    /\ OutsideBuilder

\* the queue is empty: bubble_backward_bfs returns
BfsReturn ==
    /\ bpc = "bfs"
    /\ bfs_queue = <<>>
    /\ rpo_cursor' = rpo_cursor - 1
    /\ bpc' = "build"
    /\ UNCHANGED <<bgraph, finder, bubble_entrance, bubble_exit, node_bubble_map, visited,
                   bfs_entrance, bfs_queue>>
    /\ OutsideBuilder

\* the loop of build is over: the map is returned
BuildReturn ==
    /\ bpc = "build"
    /\ rpo_cursor = 0
    /\ bpc' = "done"
    /\ UNCHANGED <<bgraph, finder, bubble_entrance, bubble_exit, node_bubble_map, visited,
                   rpo_cursor, bfs_entrance, bfs_queue>>
    /\ OutsideBuilder

BubbleNext ==
    \/ BuilderNew
    \/ BuildSkipVisited
    \/ BuildSkipNoExit
    \/ BuildStartBfs
    \/ BfsStep
    \/ BfsReturn
    \/ BuildReturn

InitBubble == BubbleInit /\ AlignIdle /\ WavefrontIdle

SpecBubble == InitBubble /\ [][BubbleNext]_vars

(***************************************************************************)
(* C9. Bubble map distances: every entry (bubble_exit, dist_to_exit) the   *)
(* builder records for a node names the exit of a superbubble the node     *)
(* lies in, and dist_to_exit is the length of the shortest path from the   *)
(* node to that exit inside the bubble.                                    *)
(***************************************************************************)
\* the nodes of U from which x is reached in exactly k steps and no fewer, k = 0, 1, ..
RECURSIVE DistanceWithin(_, _, _, _, _, _)
DistanceWithin(g, U, v, layer, seen, k) ==
    IF v \in layer THEN k
    ELSE IF layer = {} THEN -1
    ELSE DistanceWithin(g, U, v,
            (UNION {BPredecessorSet(g, w) : w \in layer} \cap U) \ seen,
            seen \cup layer, k + 1)

\* the length of the shortest path from v to x that stays in U, -1 when there is none
ShortestWithin(g, U, v, x) == DistanceWithin(g, U, v, {x}, {}, 0)

C9_BubbleDistances ==
    \A v \in DOMAIN node_bubble_map : \A k \in DOMAIN node_bubble_map[v] :
        LET entry == node_bubble_map[v][k]
        IN \E b \in finder.bubbles :
              /\ b[2] = entry.bubble_exit
              /\ v \in Inside(bgraph, b[1], b[2])
              /\ entry.dist_to_exit
                    = ShortestWithin(bgraph, Inside(bgraph, b[1], b[2]), v, b[2])

\* a finished map of a graph with a bubble nested in a bubble, where a node of the
\* inner bubble is two steps from the outer exit, and with a node that is the exit
\* of one bubble and the entrance of the next
C9_Witness ==
    /\ bpc = "done"
    /\ \E v \in DOMAIN node_bubble_map :
          /\ Len(node_bubble_map[v]) >= 2
          /\ \E k \in DOMAIN node_bubble_map[v] : node_bubble_map[v][k].dist_to_exit >= 2
    /\ \E r \in DOMAIN bubble_exit : bubble_exit[r] # 0 /\ bubble_entrance[r] # 0

(***************************************************************************)
(* C11. Queue drained is fatal: a step taken when the queue has no bucket  *)
(* left ends align in the panic on the empty queue; in that panic no end   *)
(* state was found and nothing is returned, and no step leaves it; align   *)
(* returns only with an end state that passes the terminal test.           *)
(***************************************************************************)
C11_QueueDrainedFatal ==
    [][/\ (pc = "loop" /\ queue = <<>>) => pc' = "panic_queue"
       /\ pc' = "panic_queue" =>
            /\ pc = "loop" /\ queue = <<>>
            /\ reached_end_state' = 0
            /\ alignment' = <<>>
       /\ pc = "panic_queue" => pc' = "panic_queue"
       /\ pc' = "done" =>
            /\ reached_end_state' \in DOMAIN state_tree'
            /\ IsEndState(state_tree', graph', seq', reached_end_state')]_vars

\* the queue was drained after states had been expanded: no end node can be reached
C11_Witness ==
    /\ pc = "panic_queue"
    /\ graph.starts # <<>>
    /\ expanded # <<>>
    /\ score >= 1

(***************************************************************************)
(* C12. Every state of the bucket is expanded: when an iteration ends      *)
(* without an end state, generate_next was called in that iteration,       *)
(* before the score counter is incremented, for every state popped from    *)
(* the bucket and for every state close_indels_for and the extender made   *)
(* in it.                                                                  *)
(***************************************************************************)
\* the states generate_next was called for in the iteration that is ending
ExpandedNow == SubSeq(expanded, Len(expanded) - Len(current) + 1, Len(expanded))

C12_BucketExpanded ==
    [][(pc = "generate" /\ pc' = "loop") =>
          /\ score' = score + 1
          /\ expanded' = expanded
          /\ \A ix \in Range(popped) \cup Range(created) : ix \in Range(ExpandedNow)]_vars

(***************************************************************************)
(* C13. Indel closing: after close_indels_for(batch) the tree holds a      *)
(* Match state at the node and offset of every insertion or deletion state *)
(* of the batch; the indices returned are the Match states this call made, *)
(* in the order made, each linked by ClosedIndel to an indel state of the  *)
(* batch at its node and offset; the nodes the tree held before are left   *)
(* as they were, and no Match state is made where one was present.         *)
(***************************************************************************)
C13_IndelClosing ==
    [][(pc = "popped" /\ pc' = "closed") =>
          /\ \A i \in DOMAIN current :
                state_tree[current[i]].state \in InsPhases \cup DelPhases =>
                    Visited(state_tree', state_tree[current[i]].node,
                            state_tree[current[i]].offset, "Match")
          /\ SubSeq(state_tree', 1, Len(state_tree)) = state_tree
          /\ created' = [j \in 1..(Len(state_tree') - Len(state_tree)) |-> Len(state_tree) + j]
          /\ current' = current \o created'
          /\ \A j \in (Len(state_tree) + 1)..Len(state_tree') :
                LET nd == state_tree'[j]
                IN /\ nd.state = "Match"
                   /\ nd.bt.kind = "ClosedIndel"
                   /\ nd.bt.prev \in Range(current)
                   /\ state_tree[nd.bt.prev].state \in InsPhases \cup DelPhases
                   /\ state_tree[nd.bt.prev].node = nd.node
                   /\ state_tree[nd.bt.prev].offset = nd.offset
                   /\ ~Visited(state_tree, nd.node, nd.offset, "Match")
                   /\ \A k \in (Len(state_tree) + 1)..Len(state_tree') :
                         (state_tree'[k].node = nd.node /\ state_tree'[k].offset = nd.offset)
                            => k = j]_vars

\* close_indels_for has made a Match state for one indel state of the bucket and
\* none for another, whose Match state was in the tree before the call
C13_Witness ==
    /\ pc = "closed"
    /\ created # <<>>
    /\ \E i \in DOMAIN popped :
          /\ state_tree[popped[i]].state \in InsPhases \cup DelPhases
          /\ \E m \in 1..(created[1] - 1) :
                /\ state_tree[m].state = "Match"
                /\ state_tree[m].node = state_tree[popped[i]].node
                /\ state_tree[m].offset = state_tree[popped[i]].offset

(***************************************************************************)
(* C14. Pre-extension termination leaves the tree untouched: when the      *)
(* bucket, closed-indel states included, holds a terminal state as extend  *)
(* is called, the first such state in bucket order becomes the end state,  *)
(* and the step adds nothing to the tree or the queue, replaces no slot of *)
(* the bucket and leaves the score counter alone.                          *)
(***************************************************************************)
\* position i of the bucket holds a Start, Match or Mismatch state at |Q| on an end node
TerminalAt(i) ==
    /\ state_tree[current[i]].state \in {"Start", "Match", "Mismatch"}
    /\ state_tree[current[i]].offset = Len(seq)
    /\ state_tree[current[i]].node \in graph.ends

C14_PreExtendFrame ==
    [][(pc = "closed" /\ \E i \in DOMAIN current : TerminalAt(i)) =>
          /\ pc' = "backtrace"
          /\ extend_exit' = "pre"
          /\ \E i \in DOMAIN current :
                /\ TerminalAt(i)
                /\ \A j \in 1..(i - 1) : ~TerminalAt(j)
                /\ reached_end_state' = current[i]
          /\ state_tree' = state_tree
          /\ queue' = queue
          /\ current' = current
          /\ created' = created
          /\ score' = score]_vars

\* extend has returned before extending although a state of the bucket had a
\* matching successor to extend to
C14_Witness ==
    /\ pc = "backtrace"
    /\ extend_exit = "pre"
    /\ \E i \in DOMAIN current :
          /\ state_tree[current[i]].state \in MatchPhases
          /\ PathExtender(state_tree, graph, seq, current[i]).out # <<>>

(***************************************************************************)
(* C15. One bubble-map entry per enclosing bubble: in the map build        *)
(* returns, the list of a node names no bubble exit twice, and it names    *)
(* the exit x exactly when the node lies in the superbubble that ends at   *)
(* x, entrance and exit included.                                          *)
(***************************************************************************)
\* the exits of the superbubbles v lies in
EnclosingExits(v) == {b[2] : b \in {c \in finder.bubbles : v \in Inside(bgraph, c[1], c[2])}}

C15_OneEntryPerBubble ==
    bpc = "done" =>
        \A v \in BNodes(bgraph) :
            /\ \A j, k \in DOMAIN node_bubble_map[v] :
                  node_bubble_map[v][j].bubble_exit = node_bubble_map[v][k].bubble_exit => j = k
            /\ {node_bubble_map[v][k].bubble_exit : k \in DOMAIN node_bubble_map[v]}
                  = EnclosingExits(v)

\* a finished map of a graph with a chain of two bubbles, a node in two bubbles
\* and a node in none
C15_Witness ==
    /\ bpc = "done"
    /\ \E r \in DOMAIN bubble_exit : bubble_exit[r] # 0 /\ bubble_entrance[r] # 0
    /\ \E v \in BNodes(bgraph) : Cardinality(EnclosingExits(v)) >= 2
    /\ \E v \in BNodes(bgraph) : EnclosingExits(v) = {}

(***************************************************************************)
(* C16. Termination: on a graph in which an end node can be reached from a *)
(* start node, with a query that is not empty and fits the offset type,    *)
(* the loop of align comes to an end state: it neither runs for ever nor   *)
(* drains the queue.                                                       *)
(***************************************************************************)
RECURSIVE ReachableFrom(_, _)
ReachableFrom(g, S) ==
    LET more == S \cup UNION {Range(g.succ[n]) : n \in S}
    IN IF more = S THEN S ELSE ReachableFrom(g, more)

\* some end node can be reached from a start node
EndReachable(g) == ReachableFrom(g, Range(g.starts)) \cap g.ends # {}

C16_Termination ==
    (EndReachable(graph) /\ Len(seq) >= 1 /\ Len(seq) - 1 < max_offset)
        ~> (reached_end_state # 0)

(***************************************************************************)
(* C17. Shape of the returned alignment: read forward, the query positions *)
(* of the pairs are 0, 1, .., |Q| - 1, each once and in this order; the    *)
(* graph nodes of the pairs, in order, are a directed path that begins at  *)
(* a successor of a start node and ends at an end node (with no graph node *)
(* in any pair, the path is a start node alone, which is an end node); no  *)
(* pair lacks both its graph node and its query position, and no pair is   *)
(* on a start node.                                                        *)
(***************************************************************************)
HasQpos(p) == p.qpos # -1

HasRpos(p) == p.rpos # 0

\* the query positions of the alignment, in order
QueryPositions(al) == [i \in DOMAIN SelectSeq(al, HasQpos) |-> SelectSeq(al, HasQpos)[i].qpos]

\* the graph nodes of the alignment, in order
GraphPath(al) == [i \in DOMAIN SelectSeq(al, HasRpos) |-> SelectSeq(al, HasRpos)[i].rpos]

IsPathToEnd(g, path) ==
    IF path = <<>> THEN Range(g.starts) \cap g.ends # {}
    ELSE /\ \E st \in Range(g.starts) : path[1] \in Range(g.succ[st])
         /\ \A i \in 1..(Len(path) - 1) : path[i + 1] \in Range(g.succ[path[i]])
         /\ path[Len(path)] \in g.ends

C18_ExpandedOnce ==
    \A i, j \in DOMAIN expanded : expanded[i] = expanded[j] => i = j

\* generate_next has been called for a popped mismatch state, for the Match state of
\* a closed indel and for a state the extender made, and for one state whose
\* successor was in the tree already
C18_Witness ==
    /\ \E i \in DOMAIN expanded : state_tree[expanded[i]].state = "Mismatch"
    /\ \E i \in DOMAIN expanded : state_tree[expanded[i]].bt.kind = "ClosedIndel"
    /\ \E i \in DOMAIN expanded :
          state_tree[expanded[i]].state = "Match" /\ state_tree[expanded[i]].bt.kind = "Step"
    /\ \E i \in DOMAIN expanded :
          \E k \in DOMAIN NextStates(state_tree, graph, Len(seq), expanded[i], costs) :
              LET st == NextStates(state_tree, graph, Len(seq), expanded[i], costs)[k].st
              IN \E m \in DOMAIN state_tree :
                    /\ state_tree[m].node = st.node
                    /\ state_tree[m].offset = st.offset
                    /\ state_tree[m].state = st.state
                    /\ state_tree[m].bt.prev # expanded[i]

(***************************************************************************)
(* C19. The bubble stack is never popped empty: whenever the search is     *)
(* about to go over the predecessors of a node, the stack the node carries *)
(* is not empty if one of the predecessors is an unvisited bubble          *)
(* entrance; the pop at an entrance never fails.                           *)
(***************************************************************************)
\* the predecessors of v that are bubble entrances and not visited yet
EntrancesAhead(v) ==
    {p \in BPredecessorSet(bgraph, v) :
        p \notin visited /\ bubble_entrance[finder.rev_postorder[p]] # 0}

C19_StackNeverEmpty ==
    /\ bpc # "panic_unwrap"
    /\ (bpc = "bfs" /\ bfs_queue # <<>>) =>
          LET item == Head(bfs_queue)
          IN ( /\ ~StopsAt(item.node, bfs_entrance, bubble_exit, finder.rev_postorder[item.node])
               /\ EntrancesAhead(item.node) # {} )
             => item.stack # <<>>

\* the search is at the entrance of the bubble it was started for, goes past it
\* because it is the exit of another bubble, and an unvisited entrance comes next
C19_Witness ==
    /\ bpc = "bfs"
    /\ bfs_queue # <<>>
    /\ Head(bfs_queue).node = bfs_entrance
    /\ bubble_exit[finder.rev_postorder[bfs_entrance]] # 0
    /\ EntrancesAhead(bfs_entrance) # {}

(***************************************************************************)
(* C20. Empty query: with |Q| = 0 the subtraction |Q| - 1 traps or wraps   *)
(* to the largest usize, which is below no offset maximum; align ends in   *)
(* a panic before a state is inserted and returns nothing, whatever the    *)
(* offset type and the graph.                                              *)
(***************************************************************************)
C20_EmptyQuery ==
    (seq = <<>> /\ pc # "entry") =>
        /\ pc \in {"panic_overflow", "panic_offset"}
        /\ state_tree = <<>>
        /\ queue = <<>>
        /\ current = <<>>
        /\ expanded = <<>>
        /\ reached_end_state = 0
        /\ alignment = <<>>

\* the subtraction has wrapped and the assertion has failed, on the graph whose
\* start node is an end node and with the widest offset type
C20_Witness ==
    /\ seq = <<>>
    /\ pc = "panic_offset"
    /\ max_offset = UsizeMax
    /\ Range(graph.starts) \cap graph.ends # {}

(***************************************************************************)
(* The wavefront of furthest-reaching points (wavefront/mod.rs).           *)
(* An Option<Offset> is a record: some says whether a value is present.    *)
(***************************************************************************)
NoOffset == [some |-> FALSE, v |-> 0]

SomeOffset(o) == [some |-> TRUE, v |-> o]

WfOffsets == 0 .. WfMaxOffset

OptOffsets == {NoOffset} \cup {SomeOffset(o) : o \in WfOffsets}

\* the k_lo and k_hi handed to new_with_fr_points
WfDiags == (0 - WfMaxDiag) .. WfMaxDiag

\* the diagonals handed to update_fr_point: one beyond either side as well
CallDiags == (0 - WfMaxDiag - 1) .. (WfMaxDiag + 1)

\* impl Default for Wavefront
WavefrontDefault == [k_lo |-> 0, k_hi |-> 0, furthest_points |-> <<NoOffset>>]

\* Wavefront::new_with_fr_points: the range k_lo..=k_hi is zipped with
\* fr_points (the shorter of the two ends the walk), and the wavefront is
\* cut down to the first and the last diagonal that hold an offset.
NewWithFrPoints(lo, hi, fr_points) ==
    LET span   == IF hi >= lo THEN hi - lo + 1 ELSE 0
        zipped == Min2(span, Len(fr_points))
        held   == {i \in 1 .. zipped : fr_points[i].some}
    IN IF held = {} THEN WavefrontDefault
       ELSE LET start == SetMin(held)
                end   == CHOOSE i \in held : \A j \in held : j <= i
            IN [k_lo |-> lo + start - 1,
                k_hi |-> lo + end - 1,
                furthest_points |-> SubSeq(fr_points, start, end)]

\* Wavefront::diag_to_ix: the zero-based index of a diagonal, if it is held
DiagToIx(lo, hi, diag) ==
    IF diag >= lo /\ diag <= hi THEN [some |-> TRUE, v |-> diag - lo]
    ELSE [some |-> FALSE, v |-> 0]

Overwrite(v, offset) == offset

\* cmp::max(*v, point.offset())
MaxOffset(v, offset) == IF offset > v THEN offset ELSE v

\* the offsets a diagonal starts with: the one it holds, if it is held
InitialOffsets(w, diag) ==
    LET ix == DiagToIx(w.k_lo, w.k_hi, diag)
    IN IF ix.some /\ w.furthest_points[ix.v + 1].some
       THEN {w.furthest_points[ix.v + 1].v}
       ELSE {}

\* a wavefront as Wavefront::new or Wavefront::new_with_fr_points returns it
WavefrontInit ==
    /\ \E w \in {WavefrontDefault} \cup
                {NewWithFrPoints(lo, hi, pts) :
                    lo \in WfDiags, hi \in WfDiags,
                    pts \in SeqsUpTo(OptOffsets, 2 * WfMaxDiag + 1)} :
          /\ k_lo = w.k_lo
          /\ k_hi = w.k_hi
          /\ furthest_points = w.furthest_points
          /\ supplied = [d \in CallDiags |-> InitialOffsets(w, d)]
    /\ wpc = "ready"
    /\ point = <<>>
    /\ wcalls = 0

OutsideWavefront == UNCHANGED <<alignVars, bubbleVars>>

\* Wavefront::update_fr_point
UpdateFrPoint ==
    /\ wpc = "ready"
    /\ wcalls < WfMaxCalls
    /\ \E diag \in CallDiags, offset \in WfOffsets :
          LET ix == DiagToIx(k_lo, k_hi, diag)
          IN /\ point' = <<diag, offset>>
             /\ IF ~ix.some
                THEN /\ wpc' = "panic_unwrap"
                     /\ UNCHANGED <<furthest_points, supplied>>
                ELSE /\ furthest_points' =
                           [furthest_points EXCEPT ![ix.v + 1] =
                              IF @.some THEN SomeOffset(MaxOffset(@.v, offset))
                              ELSE SomeOffset(offset)]
                     /\ supplied' = [supplied EXCEPT ![diag] = @ \cup {offset}]
                     /\ wpc' = wpc
    /\ wcalls' = wcalls + 1
    /\ UNCHANGED <<k_lo, k_hi>>
    /\ OutsideWavefront

WavefrontNext == UpdateFrPoint

InitWavefront == WavefrontInit /\ AlignIdle /\ BubbleIdle

SpecWavefront == InitWavefront /\ [][WavefrontNext]_vars

\* the largest of a non-empty set of offsets
SetMax(S) == CHOOSE m \in S : \A o \in S : o <= m

\* what the wavefront holds for a diagonal it covers
Stored(diag) == furthest_points[diag - k_lo + 1]

\* the diagonals the wavefront covers
Covered == k_lo .. k_hi

\* every covered diagonal holds the maximum of the offsets supplied for it
\* and of its initial offset, or nothing when there has been neither
HoldsMaxima ==
    /\ Len(furthest_points) = k_hi - k_lo + 1
    /\ \A diag \in Covered :
          IF supplied[diag] = {} THEN Stored(diag) = NoOffset
          ELSE Stored(diag) = SomeOffset(SetMax(supplied[diag]))

\* one call leaves the bounds, the length and every other diagonal alone,
\* and a call outside the bounds fails and leaves everything alone
CallFrame ==
    /\ k_lo' = k_lo
    /\ k_hi' = k_hi
    /\ Len(furthest_points') = Len(furthest_points)
    /\ \A diag \in Covered :
          diag # point'[1] => furthest_points'[diag - k_lo + 1] = Stored(diag)
    /\ IF point'[1] \in Covered
       THEN wpc' = "ready"
       ELSE wpc' = "panic_unwrap" /\ furthest_points' = furthest_points

\* C21: after any sequence of update_fr_point calls every covered diagonal
\* holds the maximum of the offsets supplied for it and of its initial
\* offset; each call leaves k_lo, k_hi, the number of stored diagonals
\* (k_hi - k_lo + 1) and every other diagonal's offset unchanged; a call
\* with a diagonal outside [k_lo, k_hi] fails without changing the wavefront.
C21_FurthestReaching ==
    [][wcalls' = wcalls + 1 => HoldsMaxima /\ HoldsMaxima' /\ CallFrame]_vars

\* a covered diagonal has seen three distinct offsets, its initial one counted,
\* holds the largest of them, and a call outside the bounds has then failed
C21_Witness ==
    /\ wpc = "panic_unwrap"
    /\ wcalls = WfMaxCalls
    /\ \E diag \in Covered :
          /\ Cardinality(supplied[diag]) = 3
          /\ Stored(diag) = SomeOffset(WfMaxOffset)

====
